---- MODULE Spec2Model ----
(***************************************************************************)
(* Model of check_esxcli_hparray_MegaRAID.py: the Nagios plugin that turns  *)
(* storcli text (fetched through esxcli) into one verdict.                  *)
(*                                                                         *)
(* Text is modelled at the level the regular expressions of the source      *)
(* read it: a command's output is the sequence of lines / sections / tokens *)
(* the patterns can match, and every token is a tuple of characters so that *)
(* prefix matches, case folding and regex backtracking are computed.        *)
(***************************************************************************)
EXTENDS Integers, Sequences, FiniteSets, TLC

VARIABLES
    bundle,     \* what the remote storcli answers: command -> text, and the commands that time out
    cfg,        \* command line and environment: vd_num, TERSE_OUTPUT, ENABLE_*, SHOW_HOST, main's pre-checks
    pc,         \* position in main / check_all
    status,     \* RaidChecker.status (RaidStatus)
    vd_output,  \* RaidChecker.vd_output
    pd_output,  \* RaidChecker.pd_output
    calls,      \* the commands handed to runner.run so far, in order
    result,     \* what the last check_all returned / main printed: [code, msg]
    returned    \* one entry per completed check_all on this RaidChecker: [code, msg, status]

vars == <<bundle, cfg, pc, status, vd_output, pd_output, calls, result, returned>>

----------------------------------------------------------------------------
(* Bounds of the model *)

MaxVD == 2      \* virtual-drive lines in "vall show"
MaxPD == 3      \* physical-drive lines in "eall/sall show"
MaxSec == 2     \* drive sections in "eall/sall show all"
MaxRuns == 2    \* check_all calls on one RaidChecker

----------------------------------------------------------------------------
(* Program constants *)

STATE_OK == 0
STATE_WARNING == 1
STATE_CRITICAL == 2
STATE_UNKNOWN == 3

TEMP_WARN == 50
TEMP_CRIT == 60
SSD_WEAR_WARN == 20
SSD_WEAR_CRIT == 10
MEDIA_ERROR_WARN == 1
MEDIA_ERROR_CRIT == 10
OTHER_ERROR_WARN == 1

\* check_hotspare: "if pd_total > 2"
HOTSPARE_MIN_PD == 2

\* check_drive_temperature: "if 0 < temp < 100"
TEMP_VALID_MAX == 100

----------------------------------------------------------------------------
(* Tokens are tuples of characters *)

NoTok == <<>>

Upper == <<"A","B","C","D","E","F","G","H","I","J","K","L","M",
           "N","O","P","Q","R","S","T","U","V","W","X","Y","Z">>
Lower == <<"a","b","c","d","e","f","g","h","i","j","k","l","m",
           "n","o","p","q","r","s","t","u","v","w","x","y","z">>

\* re.IGNORECASE: fold one character
LowerCh(c) ==
    IF \E i \in 1..Len(Upper) : Upper[i] = c
    THEN Lower[CHOOSE i \in 1..Len(Upper) : Upper[i] = c]
    ELSE c

LowerTok(t) == [i \in 1..Len(t) |-> LowerCh(t[i])]

IsPrefix(p, s) == Len(p) <= Len(s) /\ SubSeq(s, 1, Len(p)) = p

\* re.match(r'(A|B|..)', tok, re.IGNORECASE): a prefix match, case folded
MatchCI(pats, tok) == \E p \in pats : IsPrefix(p, LowerTok(tok))

\* the tokens of the storcli tables
Optl == <<"O","p","t","l">>
Dgrd == <<"D","g","r","d">>
Rbld == <<"R","b","l","d">>
Pdgd == <<"P","d","g","d">>
Offln == <<"O","f","f","l","n">>
OfLn == <<"O","f","L","n">>
Rec == <<"R","e","c">>
Failed == <<"F","a","i","l","e","d">>
Msng == <<"M","s","n","g">>
Onln == <<"O","n","l","n">>
UBad == <<"U","B","a","d">>
UGood == <<"U","G","o","o","d">>
GHS == <<"G","H","S">>
DHS == <<"D","H","S">>

\* words of the readable names and of the status fields
Optimal == <<"O","p","t","i","m","a","l">>
Degraded == <<"D","e","g","r","a","d","e","d">>
Rebuilding == <<"R","e","b","u","i","l","d","i","n","g">>
Offline == <<"O","f","f","l","i","n","e">>
PartiallyDegraded == <<"P","a","r","t","i","a","l","l","y"," ","D","e","g","r","a","d","e","d">>
Recovering == <<"R","e","c","o","v","e","r","i","n","g">>
Missing == <<"M","i","s","s","i","n","g">>
Online == <<"O","n","l","i","n","e">>
UnconfiguredBad == <<"U","n","c","o","n","f","i","g","u","r","e","d"," ","B","a","d">>
OK == <<"O","K">>
Good == <<"G","o","o","d">>

\* the lower-case alternatives of the patterns
p_optimal == <<"o","p","t","i","m","a","l">>
p_ok == <<"o","k">>
p_good == <<"g","o","o","d">>
p_active == <<"a","c","t","i","v","e">>
p_running == <<"r","u","n","n","i","n","g">>
p_stopped == <<"s","t","o","p","p","e","d">>
p_paused == <<"p","a","u","s","e","d">>
p_present == <<"p","r","e","s","e","n","t">>
p_yes == <<"y","e","s">>
p_absent == <<"a","b","s","e","n","t">>
p_no == <<"n","o">>

\* tokens of "show patrolread"
Stopped_tok == <<"S","t","o","p","p","e","d">>
Active_tok == <<"A","c","t","i","v","e">>
Ready_tok == <<"R","e","a","d","y">>

translate_status(st) ==
    CASE st = Optl -> Optimal
      [] st = Dgrd -> Degraded
      [] st = Rbld -> Rebuilding
      [] st = Offln -> Offline
      [] st = OfLn -> Offline
      [] st = Pdgd -> PartiallyDegraded
      [] st = Rec -> Recovering
      [] st = Failed -> Failed
      [] st = Msng -> Missing
      [] st = Onln -> Online
      [] st = UBad -> UnconfiguredBad
      [] OTHER -> st

----------------------------------------------------------------------------
(* ESXiStorCLIRunner.run and the text it returns *)

\* the storcli command lines check_all hands to runner.run
Commands ==
    {"vall_show", "eall_sall_show", "show",
     "cachevault_show_status", "cachevault_show_basic", "cachevault_show_all",
     "battery_show_status", "battery_show_basic", "battery_show_all",
     "controller_show", "controller_show_all", "fall_show",
     "eall_sall_show_all", "vall_show_rebuild", "vall_show_cc", "show_patrolread"}

\* a text none of the patterns matches in: "", "Timeout after 60s", str(e)
NoText(cmd) ==
    CASE cmd \in {"vall_show", "eall_sall_show", "eall_sall_show_all"} -> <<>>
      [] cmd = "show" -> [ctrl_status |-> NoTok]
      [] cmd \in {"cachevault_show_status", "cachevault_show_basic", "cachevault_show_all",
                  "battery_show_status", "battery_show_basic", "battery_show_all"}
            -> [unsupported |-> FALSE, state |-> NoTok]
      [] cmd = "controller_show" -> [cv |-> NoTok, bbu |-> NoTok]
      [] cmd = "controller_show_all" -> [ep |-> NoTok, ep_status |-> NoTok]
      [] cmd = "fall_show" -> [marker |-> FALSE, count |-> 0]
      [] cmd = "vall_show_rebuild" -> [progress |-> -1]
      [] cmd = "vall_show_cc" -> [running |-> FALSE, pct |-> -1]
      [] cmd = "show_patrolread" -> [state |-> NoTok, progress |-> -1]

\* runner.run(cmd): the text and the return code; a timeout or any other
\* exception is turned into a text ("Timeout after Ns", str(e)) and a code
\* (124, 1), and no caller reads the code
run(cmd) ==
    IF cmd \in bundle.fail
    THEN [text |-> NoText(cmd), rc |-> 124]
    ELSE [text |-> bundle.out[cmd], rc |-> 0]

Out(cmd) == run(cmd).text

----------------------------------------------------------------------------
(* The regular expressions over the two summaries *)

\* r'^(\d+/\d+)\s+RAID\S*\s+(\S+)' (build_perfdata): the token after the RAID type
VdPerfLines(text) ==
    [i \in 1..Len(text) |-> [c |-> text[i].c, v |-> text[i].v, st |-> text[i].state]]

\* r'^(\d+)/(\d+)\s+RAID\S*\s+(\S+).*?(\S+)\s*$' (evaluate_status, build_long_output):
\* the last group needs a character of its own, so on a line that ends with the
\* state token the state group gives back its last character to it
VdEvalLines(text) ==
    LET Matches(l) == l.name # NoTok \/ Len(l.state) >= 2
        m == SelectSeq(text, Matches)
    IN [i \in 1..Len(m) |->
          IF m[i].name # NoTok
          THEN [c |-> m[i].c, v |-> m[i].v, st |-> m[i].state, n |-> m[i].name]
          ELSE [c |-> m[i].c, v |-> m[i].v,
                st |-> SubSeq(m[i].state, 1, Len(m[i].state) - 1),
                n |-> <<m[i].state[Len(m[i].state)]>>]]

\* ' Rbld ' in self.vd_output: the token with a blank on both sides
HasRbld(text) == \E i \in 1..Len(text) : text[i].state = Rbld /\ text[i].name # NoTok

\* r'^(\d+:\d+)' (check_smart_data, check_hotspare)
PdList(text) == [i \in 1..Len(text) |-> text[i].id]

\* r'^(\d+:\d+)\s+\d+\s+(\S+)' (build_perfdata): needs the DID column
PdPerfLines(text) ==
    LET HasDid(l) == l.did
        m == SelectSeq(text, HasDid)
    IN [i \in 1..Len(m) |-> [id |-> m[i].id, st |-> m[i].state]]

\* r'^(\d+:\d+).*SSD' (check_ssd_wear)
SsdDrives(text) ==
    LET IsSsd(l) == l.ssd
        m == SelectSeq(text, IsSsd)
    IN [i \in 1..Len(m) |-> m[i].id]

\* r'(DHS|GHS)' and r'UGood', re.IGNORECASE, counted over the whole text
SpareCount(text) ==
    LET IsSpare(l) == LowerTok(l.state) \in {LowerTok(DHS), LowerTok(GHS)}
    IN Len(SelectSeq(text, IsSpare))

UGoodCount(text) ==
    LET IsUGood(l) == LowerTok(l.state) = LowerTok(UGood)
    IN Len(SelectSeq(text, IsUGood))

----------------------------------------------------------------------------
(* RaidStatus and the findings *)

NoStr == [tag |-> "", val |-> NoTok]
NoNum == [tag |-> "", n |-> 0]

\* RaidStatus(): the dataclass defaults
RaidStatus ==
    [vd_total |-> 0, vd_ok |-> 0, vd_warn |-> 0, vd_crit |-> 0,
     pd_total |-> 0, pd_ok |-> 0, pd_warn |-> 0, pd_crit |-> 0,
     spare_count |-> 0, max_temp |-> 0, media_errors |-> 0, other_errors |-> 0,
     ctrl_status |-> NoStr, battery_status |-> <<>>, hotspare_status |-> NoNum,
     rebuild_status |-> NoNum, cc_status |-> NoNum, patrol_status |-> NoNum,
     warnings |-> <<>>, critical_warnings |-> <<>>, long_output |-> <<>>]

\* one description appended to warnings or critical_warnings
Finding(what, drive, tok, n) == [what |-> what, drive |-> drive, tok |-> tok, n |-> n, drives |-> <<>>]

Warn(s, f) == [s EXCEPT !.warnings = Append(@, f)]
Crit(s, f) == [s EXCEPT !.critical_warnings = Append(@, f)]

----------------------------------------------------------------------------
(* The evaluators: each maps the report before it to the report after it *)

check_controller_health(s) ==
    LET state == Out("show").ctrl_status IN
    IF state = NoTok THEN s
    ELSE IF MatchCI({p_optimal, p_ok, p_good}, state)
         THEN [s EXCEPT !.ctrl_status = [tag |-> "Controller:", val |-> OK]]
         ELSE Warn([s EXCEPT !.ctrl_status = [tag |-> "Controller:", val |-> state]],
                   Finding("Controller status", NoTok, state, 0))

\* VariantMatch without the "unsupported command" test
VariantMatch_any(text) == text.state

\* the match of r'(?:State|Status)\s*[:=]\s*(\S+)' in one variant's text, None
\* when the text says "unsupported command"
VariantMatch(text) == IF text.unsupported THEN NoTok ELSE text.state

CvVariants == <<"cachevault_show_status", "cachevault_show_basic", "cachevault_show_all">>
BbuVariants == <<"battery_show_status", "battery_show_basic", "battery_show_all">>

\* "if not match:" three times, then the controller summary: the token that
\* decides and the commands queried to get it
RECURSIVE Chain(_, _, _)
Chain(variants, i, field) ==
    IF i > Len(variants)
    THEN [tok |-> Out("controller_show")[field],
          calls |-> variants \o <<"controller_show">>]
    ELSE LET m == VariantMatch(Out(variants[i])) IN
         IF m # NoTok
         THEN [tok |-> m, calls |-> SubSeq(variants, 1, i)]
         ELSE Chain(variants, i + 1, field)

CvChain == Chain(CvVariants, 1, "cv")
BbuChain == Chain(BbuVariants, 1, "bbu")

\* the tokens each subsystem takes for good
CvGood == {p_optimal, p_good}
BbuGood == {p_optimal, p_good, p_ok}

battery_cv(s) ==
    LET state == CvChain.tok IN
    IF state = NoTok THEN s
    ELSE IF MatchCI(CvGood, state)
         THEN [s EXCEPT !.battery_status = <<[tag |-> "CV:", val |-> OK]>>]
         ELSE Warn([s EXCEPT !.battery_status = <<[tag |-> "CV:", val |-> state]>>],
                   Finding("CacheVault", NoTok, state, 0))

battery_bbu(s) ==
    LET state == BbuChain.tok IN
    IF state = NoTok THEN s
    ELSE IF MatchCI(BbuGood, state)
         THEN [s EXCEPT !.battery_status = Append(@, [tag |-> "BBU:", val |-> OK])]
         ELSE Warn([s EXCEPT !.battery_status = Append(@, [tag |-> "BBU:", val |-> state])],
                   Finding("BBU", NoTok, state, 0))

Zero == <<"0">>

battery_energy_pack(s) ==
    IF s.battery_status # <<>> THEN s
    ELSE
    LET present_val == Out("controller_show_all").ep
        status_val == Out("controller_show_all").ep_status
    IN
    IF present_val = NoTok /\ status_val = NoTok THEN s
    ELSE IF MatchCI({p_present, p_yes}, present_val)
         THEN IF status_val = NoTok \/ status_val = Zero
                 \/ MatchCI({p_ok, p_optimal, p_good}, status_val)
              THEN [s EXCEPT !.battery_status =
                        <<[tag |-> "Cache:", val |-> OK], [tag |-> "Battery:", val |-> OK]>>]
              ELSE Warn([s EXCEPT !.battery_status =
                            <<[tag |-> "Cache:EP", val |-> status_val],
                              [tag |-> "Battery:EP", val |-> status_val]>>],
                        Finding("Energy Pack status", NoTok, status_val, 0))
         ELSE IF MatchCI({p_absent, p_no}, present_val)
              THEN Warn(s, Finding("Energy Pack Absent", NoTok, NoTok, 0))
              ELSE s

check_battery(s) == battery_energy_pack(battery_bbu(battery_cv(s)))

\* the runner.run calls of check_battery, in order
battery_calls(s) ==
    CvChain.calls \o BbuChain.calls
    \o (IF battery_bbu(battery_cv(s)).battery_status = <<>>
        THEN <<"controller_show_all">> ELSE <<>>)

check_foreign_config(s) ==
    LET output == Out("fall_show") IN
    IF output.marker /\ output.count > 0
    THEN Warn(s, Finding("Foreign config detected", NoTok, NoTok, output.count))
    ELSE s

----------------------------------------------------------------------------
(* The evaluators over "eall/sall show all": a sequence of "Drive e:s" sections *)

\* the first section at or after i that says Predictive ... Yes, 0 when none
RECURSIVE NextPredictive(_, _)
NextPredictive(detail, i) ==
    IF i > Len(detail) THEN 0
    ELSE IF detail[i].pred THEN i ELSE NextPredictive(detail, i + 1)

\* re.finditer(r'(\d+:\d+).*?Predictive.*?Yes', re.DOTALL): each match starts at
\* the first identifier after the previous match and runs on to the next "Yes"
RECURSIVE PredDrives(_, _)
PredDrives(detail, i) ==
    LET j == NextPredictive(detail, i) IN
    IF j = 0 THEN <<>> ELSE <<detail[i].hdr>> \o PredDrives(detail, j + 1)

check_predictive_failure(s) ==
    LET output == Out("eall_sall_show_all")
        pred_drives == PredDrives(output, 1)
    IN IF pred_drives # <<>>
       THEN Warn(s, [Finding("Predictive failure on", NoTok, NoTok, 0) EXCEPT !.drives = pred_drives])
       ELSE s

\* re.search(rf'Drive\s+{re.escape(drive)}.*?(?=Drive\s+\d+:\d+|$)', re.DOTALL): the
\* first section whose header starts with the identifier (nothing ends the
\* identifier in the pattern), up to the next header; 0 when none
SectionOf(detail, drive) ==
    LET hits == {i \in 1..Len(detail) : IsPrefix(drive, detail[i].hdr)} IN
    IF hits = {} THEN 0 ELSE CHOOSE i \in hits : \A j \in hits : i <= j

\* the media-error branch of check_smart_data for one count
media_finding(s, drive, count) ==
    IF count >= MEDIA_ERROR_CRIT
    THEN Crit(s, Finding("media errors", drive, NoTok, count))
    ELSE IF count >= MEDIA_ERROR_WARN
         THEN Warn(s, Finding("media errors", drive, NoTok, count))
         ELSE s

smart_media(s, drive, sec) ==
    IF sec.media > 0
    THEN media_finding([s EXCEPT !.media_errors = @ + sec.media], drive, sec.media)
    ELSE s

smart_other(s, drive, sec) ==
    IF sec.other > 0
    THEN LET t == [s EXCEPT !.other_errors = @ + sec.other] IN
         IF sec.other >= OTHER_ERROR_WARN
         THEN Warn(t, Finding("other errors", drive, NoTok, sec.other))
         ELSE t
    ELSE s

smart_shield(s, drive, sec) ==
    IF sec.shield > 0 THEN Warn(s, Finding("shield errors", drive, NoTok, sec.shield)) ELSE s

smart_bbm(s, drive, sec) ==
    IF sec.bbm > 0 THEN Warn(s, Finding("BBM errors", drive, NoTok, sec.bbm)) ELSE s

\* the body of "for drive in pd_list"
smart_drive(s, drive, detail) ==
    LET k == SectionOf(detail, drive) IN
    IF k = 0 THEN s
    ELSE smart_bbm(smart_shield(smart_other(smart_media(s, drive, detail[k]),
                                            drive, detail[k]), drive, detail[k]), drive, detail[k])

RECURSIVE smart_loop(_, _, _)
smart_loop(s, drives, detail) ==
    IF drives = <<>> THEN s
    ELSE smart_loop(smart_drive(s, Head(drives), detail), Tail(drives), detail)

check_smart_data(s) == smart_loop(s, PdList(pd_output), Out("eall_sall_show_all"))

\* wear_finding with "<" for "<="
wear_finding_strict(s, drive, remaining) ==
    IF remaining < SSD_WEAR_CRIT
    THEN Crit(s, Finding("SSD wear critical", drive, NoTok, remaining))
    ELSE IF remaining < SSD_WEAR_WARN
         THEN Warn(s, Finding("SSD wear warning", drive, NoTok, remaining))
         ELSE s

\* the two comparisons of check_ssd_wear
wear_finding(s, drive, remaining) ==
    IF remaining <= SSD_WEAR_CRIT
    THEN Crit(s, Finding("SSD wear critical", drive, NoTok, remaining))
    ELSE IF remaining <= SSD_WEAR_WARN
         THEN Warn(s, Finding("SSD wear warning", drive, NoTok, remaining))
         ELSE s

ssd_drive(s, drive, detail) ==
    LET k == SectionOf(detail, drive) IN
    IF k = 0 \/ detail[k].wear < 0 THEN s ELSE wear_finding(s, drive, detail[k].wear)

RECURSIVE ssd_loop(_, _, _)
ssd_loop(s, drives, detail) ==
    IF drives = <<>> THEN s
    ELSE ssd_loop(ssd_drive(s, Head(drives), detail), Tail(drives), detail)

check_ssd_wear(s) == ssd_loop(s, SsdDrives(pd_output), Out("eall_sall_show_all"))

\* the body of "for temp_str in temps"
temp_reading(s, temp) ==
    IF 0 < temp /\ temp < TEMP_VALID_MAX
    THEN LET t == IF temp > s.max_temp THEN [s EXCEPT !.max_temp = temp] ELSE s IN
         IF temp >= TEMP_CRIT
         THEN Crit(t, Finding("Drive overheating", NoTok, NoTok, temp))
         ELSE IF temp >= TEMP_WARN
              THEN Warn(t, Finding("Drive temperature high", NoTok, NoTok, temp))
              ELSE t
    ELSE s

\* re.findall(r'(?:Drive\s+)?Temperature.*?(\d+)'): every reading of the text
Temps(detail) ==
    LET HasTemp(sec) == sec.temp >= 0
        m == SelectSeq(detail, HasTemp)
    IN [i \in 1..Len(m) |-> m[i].temp]

RECURSIVE temp_loop(_, _)
temp_loop(s, temps) ==
    IF temps = <<>> THEN s ELSE temp_loop(temp_reading(s, Head(temps)), Tail(temps))

check_drive_temperature(s) == temp_loop(s, Temps(Out("eall_sall_show_all")))

----------------------------------------------------------------------------
(* The evaluators over the short commands and the two summaries *)

check_rebuild_progress(s) ==
    IF HasRbld(vd_output)
    THEN LET output == Out("vall_show_rebuild") IN
         IF output.progress >= 0
         THEN [s EXCEPT !.rebuild_status = [tag |-> "Rebuild:%", n |-> output.progress]]
         ELSE [s EXCEPT !.rebuild_status = [tag |-> "Rebuild:InProgress", n |-> 0]]
    ELSE s

rebuild_calls == IF HasRbld(vd_output) THEN <<"vall_show_rebuild">> ELSE <<>>

check_consistency_check(s) ==
    LET output == Out("vall_show_cc") IN
    IF output.pct >= 0 \/ output.running
    THEN IF output.pct >= 0
         THEN [s EXCEPT !.cc_status = [tag |-> "CC:%", n |-> output.pct]]
         ELSE [s EXCEPT !.cc_status = [tag |-> "CC:Running", n |-> 0]]
    ELSE s

\* check_patrol_read that takes a missing state for a stopped patrol read
check_patrol_read_default_stopped(s) ==
    LET output == Out("show_patrolread") IN
    IF output.state = NoTok \/ MatchCI({p_stopped, p_paused}, output.state)
    THEN [s EXCEPT !.patrol_status = [tag |-> "PR:Stopped", n |-> 0]]
    ELSE IF MatchCI({p_active, p_running}, output.state)
         THEN IF output.progress >= 0
              THEN [s EXCEPT !.patrol_status = [tag |-> "PR:%", n |-> output.progress]]
              ELSE [s EXCEPT !.patrol_status = [tag |-> "PR:Running", n |-> 0]]
         ELSE s

check_patrol_read(s) ==
    LET output == Out("show_patrolread") IN
    IF output.state = NoTok THEN s
    ELSE IF MatchCI({p_active, p_running}, output.state)
         THEN IF output.progress >= 0
              THEN [s EXCEPT !.patrol_status = [tag |-> "PR:%", n |-> output.progress]]
              ELSE [s EXCEPT !.patrol_status = [tag |-> "PR:Running", n |-> 0]]
         ELSE IF MatchCI({p_stopped, p_paused}, output.state)
              THEN [s EXCEPT !.patrol_status = [tag |-> "PR:Stopped", n |-> 0]]
              ELSE s

\* "self.status.pd_total or len(re.findall(r'^(\d+:\d+)', self.pd_output))"
hotspare_pd_total(s) == IF s.pd_total # 0 THEN s.pd_total ELSE Len(PdList(pd_output))

check_hotspare(s) ==
    LET spare_ok == SpareCount(pd_output)
        ugood_count == UGoodCount(pd_output)
        pd_total == hotspare_pd_total(s)
        t == [s EXCEPT !.spare_count = spare_ok]
    IN IF spare_ok > 0
       THEN [t EXCEPT !.hotspare_status = [tag |-> "Spares:", n |-> spare_ok]]
       ELSE IF ugood_count > 0
            THEN [t EXCEPT !.hotspare_status = [tag |-> "UGood:", n |-> ugood_count]]
            ELSE LET u == [t EXCEPT !.hotspare_status = [tag |-> "Spares:", n |-> 0]] IN
                 IF pd_total > HOTSPARE_MIN_PD
                 THEN Warn(u, Finding("No hot spares configured", NoTok, NoTok, 0))
                 ELSE u

\* the class build_perfdata counts a virtual-drive state in
vd_class(state) ==
    IF state = Optl THEN "ok"
    ELSE IF state \in {Rbld, Pdgd} THEN "warn" ELSE "crit"

\* the class build_perfdata counts a physical-drive state in, "none" when it
\* counts it in no class
pd_class(state) ==
    IF state = Onln THEN "ok"
    ELSE IF state = Rbld THEN "warn"
         ELSE IF state \in {Offln, Failed, UBad, Msng} THEN "crit" ELSE "none"

NumVd(lines, class) == Cardinality({i \in 1..Len(lines) : vd_class(lines[i].st) = class})
NumPd(lines, class) == Cardinality({i \in 1..Len(lines) : pd_class(lines[i].st) = class})

\* the totals are assigned, the classes are added to what the report holds
build_perfdata(s) ==
    LET vd_lines == VdPerfLines(vd_output)
        pd_lines == PdPerfLines(pd_output)
    IN [s EXCEPT !.vd_total = Len(vd_lines),
                 !.vd_ok = @ + NumVd(vd_lines, "ok"),
                 !.vd_warn = @ + NumVd(vd_lines, "warn"),
                 !.vd_crit = @ + NumVd(vd_lines, "crit"),
                 !.pd_total = Len(pd_lines),
                 !.pd_ok = @ + NumPd(pd_lines, "ok"),
                 !.pd_warn = @ + NumPd(pd_lines, "warn"),
                 !.pd_crit = @ + NumPd(pd_lines, "crit")]

Line(tag, val) == [tag |-> tag, val |-> val]

\* the lines build_long_output appends
long_lines(s) ==
    LET vds == VdEvalLines(vd_output) IN
    <<Line("--- Virtual Drives ---", 0)>>
    \o [i \in 1..Len(vds) |-> Line("VD", vds[i])]
    \o <<Line("", 0), Line("--- Status ---", 0)>>
    \o (IF s.ctrl_status # NoStr THEN <<Line("Controller", s.ctrl_status)>> ELSE <<>>)
    \o (IF s.battery_status # <<>> THEN <<Line("Battery", s.battery_status)>> ELSE <<>>)
    \o (IF s.hotspare_status # NoNum THEN <<Line("Hot Spares", s.hotspare_status)>> ELSE <<>>)
    \o (IF s.patrol_status # NoNum THEN <<Line("Patrol Read", s.patrol_status)>> ELSE <<>>)
    \o (IF s.cc_status # NoNum THEN <<Line("Consistency Check", s.cc_status)>> ELSE <<>>)
    \o (IF s.rebuild_status # NoNum THEN <<Line("Rebuild", s.rebuild_status)>> ELSE <<>>)
    \o (IF s.max_temp > 0 THEN <<Line("Max Temperature", s.max_temp)>> ELSE <<>>)
    \o (IF s.media_errors > 0 THEN <<Line("Total Media Errors", s.media_errors)>> ELSE <<>>)
    \o (IF s.other_errors > 0 THEN <<Line("Total Other Errors", s.other_errors)>> ELSE <<>>)

build_long_output(s) == [s EXCEPT !.long_output = @ \o long_lines(s)]

----------------------------------------------------------------------------
(* evaluate_status: the verdict and the message *)

NoExtra ==
    [battery |-> <<>>, ctrl |-> NoStr, hotspare |-> NoNum, cc |-> NoNum,
     patrol |-> NoNum, temp |-> 0]

\* the parts a message is formatted from; a part the f-string leaves out is blank
NoMsg ==
    [label |-> "", vd |-> "", name |-> NoTok, readable |-> NoTok, rebuild |-> NoNum,
     findings |-> <<>>, vd_info |-> <<>>, total |-> -1, extra |-> NoExtra,
     host |-> FALSE, perf |-> <<>>, long |-> <<>>]

\* perf_suffix
perf_suffix(s) ==
    IF cfg.perfdata
    THEN <<s.vd_total, s.vd_ok, s.vd_warn, s.vd_crit, s.pd_total, s.pd_ok, s.pd_warn,
           s.pd_crit, s.spare_count, s.max_temp, s.media_errors, s.other_errors>>
    ELSE <<>>

\* long_out
long_out(s) == IF cfg.long_output /\ s.long_output # <<>> THEN s.long_output ELSE <<>>

\* f"{msg}{host_suffix}{perf_suffix}{long_out}"
WithSuffixes(m, s) ==
    [m EXCEPT !.host = cfg.show_host, !.perf = perf_suffix(s), !.long = long_out(s)]

\* filter_lines without the list comprehension: every parsed drive is kept
filter_lines_unfiltered(vd_lines, vd_num) == vd_lines

\* "if self.vd_num: vd_lines = [... if v == self.vd_num]"
filter_lines(vd_lines, vd_num) ==
    IF vd_num # ""
    THEN LET Same(l) == l.v = vd_num IN SelectSeq(vd_lines, Same)
    ELSE vd_lines

\* non_optimal
non_optimal(vd_lines) ==
    LET NotOptl(l) == l.st # Optl IN SelectSeq(vd_lines, NotOptl)

\* vd_state_code with 'Pdgd' left out of the tuple
vd_state_code_rbld_only(state) == IF state = Rbld THEN STATE_WARNING ELSE STATE_CRITICAL

\* the exit code of a non-optimal virtual drive: "if state in ('Rbld', 'Pdgd')"
vd_state_code(state) == IF state \in {Rbld, Pdgd} THEN STATE_WARNING ELSE STATE_CRITICAL

\* the message of the non-optimal branch
vd_state_msg(s, l) ==
    LET warning == vd_state_code(l.st) = STATE_WARNING
        base == [NoMsg EXCEPT !.label = IF warning THEN "RAID WARNING (MegaRAID) - VD"
                                                   ELSE "RAID CRITICAL (MegaRAID) - VD",
                              !.vd = l.v, !.readable = translate_status(l.st)]
    IN IF cfg.terse THEN base
       ELSE IF warning THEN [base EXCEPT !.name = l.n, !.rebuild = s.rebuild_status]
            ELSE [base EXCEPT !.name = l.n]

\* ", ".join([f"VD{v}:Optimal" for c, v, st, n in vd_lines])
vd_info(vd_lines) == [i \in 1..Len(vd_lines) |-> vd_lines[i].v]

\* the message of the two findings branches
findings_msg(label, findings, vd_lines) ==
    IF cfg.terse
    THEN [NoMsg EXCEPT !.label = label, !.findings = findings]
    ELSE [NoMsg EXCEPT !.label = label, !.findings = findings, !.vd_info = vd_info(vd_lines)]

\* extra: the status strings that are set
extra_of(s) ==
    [battery |-> s.battery_status, ctrl |-> s.ctrl_status, hotspare |-> s.hotspare_status,
     cc |-> s.cc_status, patrol |-> s.patrol_status, temp |-> s.max_temp]

\* the message of the OK branch
ok_msg(s, vd_lines) ==
    IF cfg.terse
    THEN [NoMsg EXCEPT !.label = "RAID OK (MegaRAID)", !.vd = cfg.vd_num]
    ELSE IF cfg.vd_num # ""
         THEN [NoMsg EXCEPT !.label = "RAID OK (MegaRAID)", !.vd = cfg.vd_num,
                            !.extra = extra_of(s)]
         ELSE [NoMsg EXCEPT !.label = "RAID OK (MegaRAID) - All", !.total = s.vd_total,
                            !.vd_info = vd_info(vd_lines), !.extra = extra_of(s)]

evaluate_status(s) ==
    LET vd_lines == filter_lines(VdEvalLines(vd_output), cfg.vd_num)
        bad == non_optimal(vd_lines)
    IN
    IF cfg.vd_num # "" /\ vd_lines = <<>>
    THEN [code |-> STATE_CRITICAL,
          msg |-> [NoMsg EXCEPT !.label = "RAID CRITICAL - Virtual Drive not found",
                                !.vd = cfg.vd_num]]
    ELSE IF bad # <<>>
    THEN [code |-> vd_state_code(bad[1].st), msg |-> WithSuffixes(vd_state_msg(s, bad[1]), s)]
    ELSE IF s.critical_warnings # <<>>
    THEN [code |-> STATE_CRITICAL,
          msg |-> WithSuffixes(findings_msg("RAID CRITICAL (MegaRAID) -",
                                            s.critical_warnings, vd_lines), s)]
    ELSE IF s.warnings # <<>>
    THEN [code |-> STATE_WARNING,
          msg |-> WithSuffixes(findings_msg("RAID WARNING (MegaRAID) -",
                                            s.warnings, vd_lines), s)]
    ELSE [code |-> STATE_OK, msg |-> WithSuffixes(ok_msg(s, vd_lines), s)]

----------------------------------------------------------------------------
(* The inputs: what storcli may answer and how the plugin is started *)

Digit == <<"0","1","2","3","4","5","6","7","8","9">>

\* the i-th line of "vall show": "0/<i-1> RAID1 <state> [... <name>]"
VdLine(i, state, name) == [c |-> "0", v |-> Digit[i], state |-> state, name |-> name]

\* the i-th line of "eall/sall show": slots 0:1, 0:10, 0:2, 0:3, ...
PdId(i) ==
    <<"0", ":">> \o (IF i = 1 THEN <<"1">> ELSE IF i = 2 THEN <<"1", "0">> ELSE <<Digit[i]>>)

PdLine(i, did, state, ssd) == [id |-> PdId(i), did |-> did, state |-> state, ssd |-> ssd]

\* a "Drive e:s" section with nothing to report
Section(hdr) ==
    [hdr |-> hdr, media |-> 0, other |-> 0, shield |-> 0, bbm |-> 0,
     wear |-> -1, temp |-> 35, pred |-> FALSE]

DataName == <<"d","a","t","a">>
Unsupported == [unsupported |-> TRUE, state |-> NoTok]

\* two optimal virtual drives, two online drives, every subsystem good
Healthy ==
    [vall_show |-> <<VdLine(1, Optl, DataName), VdLine(2, Optl, DataName)>>,
     eall_sall_show |-> <<PdLine(1, TRUE, Onln, FALSE), PdLine(2, TRUE, Onln, FALSE)>>,
     show |-> [ctrl_status |-> Optimal],
     cachevault_show_status |-> [unsupported |-> FALSE, state |-> Optimal],
     cachevault_show_basic |-> [unsupported |-> FALSE, state |-> Optimal],
     cachevault_show_all |-> [unsupported |-> FALSE, state |-> Optimal],
     battery_show_status |-> Unsupported,
     battery_show_basic |-> Unsupported,
     battery_show_all |-> Unsupported,
     controller_show |-> [cv |-> Optimal, bbu |-> NoTok],
     controller_show_all |-> [ep |-> NoTok, ep_status |-> NoTok],
     fall_show |-> [marker |-> FALSE, count |-> 0],
     eall_sall_show_all |-> <<Section(PdId(1)), Section(PdId(2))>>,
     vall_show_rebuild |-> [progress |-> -1],
     vall_show_cc |-> [running |-> FALSE, pct |-> -1],
     show_patrolread |-> [state |-> Stopped_tok, progress |-> -1]]

\* the defaults of the environment switches and of the command line, on a host
\* main() accepts
DefaultCfg ==
    [vd_num |-> "", terse |-> TRUE, perfdata |-> FALSE, long_output |-> FALSE,
     show_host |-> FALSE, host_known |-> TRUE, esxcli_exists |-> TRUE, no_check |-> FALSE]

Bundle(out, fail) == [out |-> out, fail |-> fail]

\* "vall show" texts of up to MaxVD lines
VdStates == {Optl, Rbld, Pdgd, Dgrd}
VdNames == {NoTok, DataName}
VdTexts ==
    UNION {{[i \in 1..k |-> VdLine(i, f[i][1], f[i][2])] : f \in [1..k -> VdStates \X VdNames]}
           : k \in 0..MaxVD}

Filters == {"", "0", "1", "5"}

\* the temperatures of the two sections: none, one or both over a threshold
TempPairs == {<<35, 35>>, <<55, 35>>, <<65, 35>>, <<55, 65>>}

WithTemps(detail, t) == [i \in 1..Len(detail) |-> [detail[i] EXCEPT !.temp = t[i]]]

\* virtual drives, filter, findings, rebuild progress and phrasing
InitVd ==
    \E vd \in VdTexts, f \in Filters, t \in TempPairs, r \in {-1, 45}, terse \in BOOLEAN :
        /\ bundle = Bundle([Healthy EXCEPT !.vall_show = vd,
                                           !.eall_sall_show_all = WithTemps(@, t),
                                           !.vall_show_rebuild = [progress |-> r]], {})
        /\ cfg = [DefaultCfg EXCEPT !.vd_num = f, !.terse = terse]

\* "eall/sall show" texts of up to MaxPD lines, with and without the DID column
PdStates == {Onln, Rbld, Failed, GHS, UGood}
PdTexts ==
    UNION {{[i \in 1..k |-> PdLine(i, f[i][1], f[i][2], FALSE)] : f \in [1..k -> BOOLEAN \X PdStates]}
           : k \in 0..MaxPD}

\* physical drives, with the metrics block switched on
InitPd ==
    \E pd \in PdTexts :
        /\ bundle = Bundle([Healthy EXCEPT !.eall_sall_show = pd], {})
        /\ cfg = [DefaultCfg EXCEPT !.perfdata = TRUE]


\* solid-state drives and their sections, in the order of the summary or reversed
WearVals == {-1, 9, 10, 11, 20, 21}

Reverse(q) == [i \in 1..Len(q) |-> q[Len(q) + 1 - i]]

InitSsd ==
    \E ssd \in [1..MaxSec -> BOOLEAN], w \in [1..MaxSec -> WearVals], rev \in BOOLEAN :
        LET detail == [i \in 1..MaxSec |-> [Section(PdId(i)) EXCEPT !.wear = w[i]]] IN
        /\ bundle = Bundle([Healthy EXCEPT
                               !.eall_sall_show = [i \in 1..MaxSec |-> PdLine(i, TRUE, Onln, ssd[i])],
                               !.eall_sall_show_all = IF rev THEN Reverse(detail) ELSE detail], {})
        /\ cfg = DefaultCfg

\* error counters and the predictive-failure flag of each section
MediaVals == {-1, 0, 1, 9, 10}
Counters == {<<0, 0, 0>>, <<2, 0, 0>>, <<0, 1, 0>>, <<0, 0, 3>>}

InitSmart ==
    \E m \in [1..MaxSec -> MediaVals], c \in [1..MaxSec -> Counters], p \in [1..MaxSec -> BOOLEAN] :
        /\ bundle = Bundle([Healthy EXCEPT
                               !.eall_sall_show = [i \in 1..MaxSec |-> PdLine(i, TRUE, Onln, FALSE)],
                               !.eall_sall_show_all =
                                   [i \in 1..MaxSec |->
                                       [Section(PdId(i)) EXCEPT !.media = m[i], !.other = c[i][1],
                                                                !.shield = c[i][2], !.bbm = c[i][3],
                                                                !.pred = p[i]]]], {})
        /\ cfg = [DefaultCfg EXCEPT !.perfdata = TRUE]

\* what one power-protection command variant may answer
Variants ==
    {Unsupported, [unsupported |-> TRUE, state |-> Optimal]}
    \cup {[unsupported |-> FALSE, state |-> t] : t \in {NoTok, Optimal, OK, Failed}}

Present_tok == <<"P","r","e","s","e","n","t">>
Absent_tok == <<"A","b","s","e","n","t">>
EnergyPacks ==
    {[ep |-> NoTok, ep_status |-> NoTok], [ep |-> Present_tok, ep_status |-> NoTok],
     [ep |-> Present_tok, ep_status |-> Failed], [ep |-> Absent_tok, ep_status |-> NoTok]}

\* the CacheVault chain, with no battery unit
InitCv ==
    \E v \in [1..3 -> Variants], c \in {NoTok, Optimal, Failed}, e \in EnergyPacks :
        /\ bundle = Bundle([Healthy EXCEPT !.cachevault_show_status = v[1],
                                           !.cachevault_show_basic = v[2],
                                           !.cachevault_show_all = v[3],
                                           !.controller_show = [cv |-> c, bbu |-> NoTok],
                                           !.controller_show_all = e], {})
        /\ cfg = DefaultCfg

\* the battery chain, with no CacheVault
InitBbu ==
    \E v \in [1..3 -> Variants], c \in {NoTok, Optimal, Failed}, e \in EnergyPacks :
        /\ bundle = Bundle([Healthy EXCEPT !.cachevault_show_status = Unsupported,
                                           !.cachevault_show_basic = Unsupported,
                                           !.cachevault_show_all = Unsupported,
                                           !.battery_show_status = v[1],
                                           !.battery_show_basic = v[2],
                                           !.battery_show_all = v[3],
                                           !.controller_show = [cv |-> NoTok, bbu |-> c],
                                           !.controller_show_all = e], {})
        /\ cfg = DefaultCfg

\* controller, patrol read, consistency check, foreign configuration
Lower_ok == <<"o","k">>
CtrlTokens == {NoTok, Optimal, Lower_ok, Degraded}
Patrols ==
    {[state |-> t, progress |-> n] : t \in {NoTok, Active_tok, Stopped_tok, Ready_tok}, n \in {-1, 30}}
ConsistencyChecks == {[running |-> FALSE, pct |-> -1], [running |-> TRUE, pct |-> -1],
                      [running |-> TRUE, pct |-> 12]}
Foreigns == {[marker |-> FALSE, count |-> 0], [marker |-> TRUE, count |-> 0],
             [marker |-> TRUE, count |-> 2]}

InitMisc ==
    \E c \in CtrlTokens, pr \in Patrols, cc \in ConsistencyChecks, fc \in Foreigns,
       long \in BOOLEAN, terse \in BOOLEAN :
        /\ bundle = Bundle([Healthy EXCEPT !.show = [ctrl_status |-> c],
                                           !.show_patrolread = pr,
                                           !.vall_show_cc = cc,
                                           !.fall_show = fc], {})
        /\ cfg = [DefaultCfg EXCEPT !.long_output = long, !.terse = terse]

\* one command answers with an empty text, everything else is healthy
InitAbsent ==
    \E c \in Commands, f \in {"", "0"}, long \in BOOLEAN, terse \in BOOLEAN :
        /\ bundle = Bundle([Healthy EXCEPT ![c] = NoText(c)], {})
        /\ cfg = [DefaultCfg EXCEPT !.vd_num = f, !.long_output = long, !.terse = terse]

\* one command, or every command, times out or fails in subprocess.run
InitFail ==
    \E fail \in {{c} : c \in Commands} \cup {Commands}, f \in {"", "0"},
       st \in {Optl, Rbld, Dgrd} :
        /\ bundle = Bundle([Healthy EXCEPT !.vall_show[2] = VdLine(2, st, DataName)], fail)
        /\ cfg = [DefaultCfg EXCEPT !.vd_num = f]

\* main()'s checks before a RaidChecker exists
InitMain ==
    \E h \in BOOLEAN, e \in BOOLEAN, n \in BOOLEAN, sh \in BOOLEAN, pf \in BOOLEAN :
        /\ bundle = Bundle(Healthy, {})
        /\ cfg = [DefaultCfg EXCEPT !.host_known = h, !.esxcli_exists = e, !.no_check = n,
                                    !.show_host = sh, !.perfdata = pf]

NoResult == [code |-> -1, msg |-> NoMsg]

Init ==
    /\ InitVd \/ InitPd \/ InitSsd \/ InitSmart \/ InitCv \/ InitBbu
       \/ InitMisc \/ InitAbsent \/ InitFail \/ InitMain
    /\ pc = "main"
    /\ status = RaidStatus
    /\ vd_output = <<>>
    /\ pd_output = <<>>
    /\ calls = <<>>
    /\ result = NoResult
    /\ returned = <<>>

----------------------------------------------------------------------------
(* main() and check_all(), one action per step *)

UnknownMsg(label) == [code |-> STATE_UNKNOWN, msg |-> [NoMsg EXCEPT !.label = label]]

\* main() up to the construction of the RaidChecker
Main ==
    /\ pc = "main"
    /\ IF ~cfg.host_known
       THEN result' = UnknownMsg("RAID UNKNOWN - Unknown host") /\ pc' = "exit"
       ELSE IF ~cfg.esxcli_exists
       THEN result' = UnknownMsg("RAID UNKNOWN - esxcli not found") /\ pc' = "exit"
       ELSE IF cfg.no_check
       THEN /\ result' = [code |-> STATE_OK,
                          msg |-> [NoMsg EXCEPT !.label = "RAID OK - Check skipped (maintenance mode)"]]
            /\ pc' = "exit"
       ELSE result' = result /\ pc' = "fetch"
    /\ UNCHANGED <<bundle, cfg, status, vd_output, pd_output, calls, returned>>

\* check_all: the two summaries
FetchSummaries ==
    /\ pc = "fetch"
    /\ vd_output' = Out("vall_show")
    /\ pd_output' = Out("eall_sall_show")
    /\ calls' = calls \o <<"vall_show", "eall_sall_show">>
    /\ pc' = "controller"
    /\ UNCHANGED <<bundle, cfg, status, result, returned>>

\* what an evaluator of check_all leaves alone besides the runner's calls
kept == <<bundle, cfg, vd_output, pd_output, result, returned>>

CheckControllerHealth ==
    /\ pc = "controller"
    /\ status' = check_controller_health(status)
    /\ calls' = calls \o <<"show">>
    /\ pc' = "battery"
    /\ UNCHANGED kept

CheckBattery ==
    /\ pc = "battery"
    /\ status' = check_battery(status)
    /\ calls' = calls \o battery_calls(status)
    /\ pc' = "foreign"
    /\ UNCHANGED kept

CheckForeignConfig ==
    /\ pc = "foreign"
    /\ status' = check_foreign_config(status)
    /\ calls' = calls \o <<"fall_show">>
    /\ pc' = "predictive"
    /\ UNCHANGED kept

CheckPredictiveFailure ==
    /\ pc = "predictive"
    /\ status' = check_predictive_failure(status)
    /\ calls' = calls \o <<"eall_sall_show_all">>
    /\ pc' = "smart"
    /\ UNCHANGED kept

CheckSmartData ==
    /\ pc = "smart"
    /\ status' = check_smart_data(status)
    /\ calls' = calls \o <<"eall_sall_show_all">>
    /\ pc' = "rebuild"
    /\ UNCHANGED kept

CheckRebuildProgress ==
    /\ pc = "rebuild"
    /\ status' = check_rebuild_progress(status)
    /\ calls' = calls \o rebuild_calls
    /\ pc' = "cc"
    /\ UNCHANGED kept

CheckConsistencyCheck ==
    /\ pc = "cc"
    /\ status' = check_consistency_check(status)
    /\ calls' = calls \o <<"vall_show_cc">>
    /\ pc' = "ssd"
    /\ UNCHANGED kept

CheckSsdWear ==
    /\ pc = "ssd"
    /\ status' = check_ssd_wear(status)
    /\ calls' = calls \o <<"eall_sall_show_all">>
    /\ pc' = "temperature"
    /\ UNCHANGED kept

CheckDriveTemperature ==
    /\ pc = "temperature"
    /\ status' = check_drive_temperature(status)
    /\ calls' = calls \o <<"eall_sall_show_all">>
    /\ pc' = "patrol"
    /\ UNCHANGED kept

CheckPatrolRead ==
    /\ pc = "patrol"
    /\ status' = check_patrol_read(status)
    /\ calls' = calls \o <<"show_patrolread">>
    /\ pc' = "hotspare"
    /\ UNCHANGED kept

CheckHotspare ==
    /\ pc = "hotspare"
    /\ status' = check_hotspare(status)
    /\ calls' = calls
    /\ pc' = "perfdata"
    /\ UNCHANGED kept

BuildPerfdata ==
    /\ pc = "perfdata"
    /\ status' = build_perfdata(status)
    /\ calls' = calls
    /\ pc' = IF cfg.long_output THEN "long_output" ELSE "evaluate"
    /\ UNCHANGED kept

BuildLongOutput ==
    /\ pc = "long_output"
    /\ status' = build_long_output(status)
    /\ calls' = calls
    /\ pc' = "evaluate"
    /\ UNCHANGED kept

\* return self.evaluate_status()
EvaluateStatus ==
    /\ pc = "evaluate"
    /\ result' = evaluate_status(status)
    /\ returned' = Append(returned, [code |-> result'.code, msg |-> result'.msg, status |-> status])
    /\ pc' = "returned"
    /\ UNCHANGED <<bundle, cfg, status, vd_output, pd_output, calls>>

\* print(message); sys.exit(exit_code)
MainExit ==
    /\ pc = "returned"
    /\ pc' = "exit"
    /\ UNCHANGED <<bundle, cfg, status, vd_output, pd_output, calls, result, returned>>

\* a caller that holds the RaidChecker calls check_all once more
CheckAllAgain ==
    /\ pc = "returned"
    /\ Len(returned) < MaxRuns
    /\ pc' = "fetch"
    /\ UNCHANGED <<bundle, cfg, status, vd_output, pd_output, calls, result, returned>>

Next ==
    \/ Main
    \/ FetchSummaries
    \/ CheckControllerHealth
    \/ CheckBattery
    \/ CheckForeignConfig
    \/ CheckPredictiveFailure
    \/ CheckSmartData
    \/ CheckRebuildProgress
    \/ CheckConsistencyCheck
    \/ CheckSsdWear
    \/ CheckDriveTemperature
    \/ CheckPatrolRead
    \/ CheckHotspare
    \/ BuildPerfdata
    \/ BuildLongOutput
    \/ EvaluateStatus
    \/ MainExit

\* one run of the plugin, as main() makes it
Spec == Init /\ [][Next]_vars

\* a RaidChecker whose check_all is called up to MaxRuns times
NextRerun == Next \/ CheckAllAgain

SpecRerun == Init /\ [][NextRerun]_vars

----------------------------------------------------------------------------
(* Vocabulary of the properties *)

PcSeq ==
    <<"main", "fetch", "controller", "battery", "foreign", "predictive", "smart", "rebuild",
      "cc", "ssd", "temperature", "patrol", "hotspare", "perfdata", "long_output",
      "evaluate", "returned", "exit">>

PcIndex(p) == CHOOSE i \in 1..Len(PcSeq) : PcSeq[i] = p

\* the step at position p of check_all has run (in the current call)
Past(p) == PcIndex(pc) > PcIndex(p) /\ (pc = "exit" => returned # <<>>)

\* check_all has returned and nothing has happened since
Returned == pc = "returned"

Range(q) == {q[i] : i \in 1..Len(q)}

\* the virtual drives evaluate_status parses, and the positions it considers
ParsedVds == VdEvalLines(vd_output)
Considered ==
    {i \in 1..Len(ParsedVds) : cfg.vd_num = "" \/ ParsedVds[i].v = cfg.vd_num}
NonOptimal == {i \in Considered : ParsedVds[i].st # Optl}
FirstNonOptimal == CHOOSE i \in NonOptimal : \A j \in NonOptimal : i <= j
Transient == {Rbld, Pdgd}

----------------------------------------------------------------------------
(* C1 *)

\* C1: evaluate_status returns the verdict of the first rule that matches, in
\* the order: filter without a matching drive -> CRITICAL; a considered drive
\* not Optimal -> WARNING when the first such drive is Rebuilding or
\* PartiallyDegraded, else CRITICAL; critical findings -> CRITICAL; warnings ->
\* WARNING; else OK. OK only with every considered drive Optimal and both
\* finding lists empty.
C1_PriorityOrder ==
    Returned =>
        /\ result.code =
             IF cfg.vd_num # "" /\ Considered = {} THEN STATE_CRITICAL
             ELSE IF NonOptimal # {}
                  THEN (IF ParsedVds[FirstNonOptimal].st \in Transient
                        THEN STATE_WARNING ELSE STATE_CRITICAL)
             ELSE IF status.critical_warnings # <<>> THEN STATE_CRITICAL
             ELSE IF status.warnings # <<>> THEN STATE_WARNING
             ELSE STATE_OK
        /\ result.code = STATE_OK =>
             /\ \A i \in Considered : ParsedVds[i].st = Optl
             /\ status.warnings = <<>>
             /\ status.critical_warnings = <<>>

\* a run where a Rebuilding drive decides WARNING although a critical finding
\* and a warning were recorded and a later drive is Degraded
C1_Witness ==
    /\ Returned
    /\ cfg.vd_num = ""
    /\ Len(ParsedVds) = 2
    /\ ParsedVds[1].st = Rbld
    /\ ParsedVds[2].st = Dgrd
    /\ status.critical_warnings # <<>>
    /\ status.warnings # <<>>
    /\ result.code = STATE_WARNING

----------------------------------------------------------------------------
(* C2 *)

\* C2: check_all returns CRITICAL whenever a critical finding was recorded or
\* some virtual drive is in a non-optimal state other than Rebuilding and
\* PartiallyDegraded, also when a drive listed earlier is Rebuilding or
\* PartiallyDegraded (stated for runs without a drive filter).
C2_CriticalNeverMasked ==
    (Returned /\ cfg.vd_num = "") =>
        ((status.critical_warnings # <<>>
          \/ \E i \in 1..Len(vd_output) : vd_output[i].state \notin (Transient \cup {Optl}))
         => result.code = STATE_CRITICAL)

----------------------------------------------------------------------------
(* C3 *)

\* C3: after build_perfdata, vd_total = vd_ok + vd_warn + vd_crit and
\* pd_total = pd_ok + pd_warn + pd_crit, whatever state token a drive carries.
C3_CountsAddUp ==
    Past("perfdata") =>
        /\ status.vd_total = status.vd_ok + status.vd_warn + status.vd_crit
        /\ status.pd_total = status.pd_ok + status.pd_warn + status.pd_crit

----------------------------------------------------------------------------
(* C4 *)

\* a command check_all ran has timed out or failed in subprocess.run
RetrievalFailed == \E i \in 1..Len(calls) : calls[i] \in bundle.fail

\* C4: when a retrieval times out or fails, the outcome is UNKNOWN and no
\* OK / WARNING / CRITICAL verdict is computed from the failure text.
C4_FailureIsUnknown ==
    (Returned /\ RetrievalFailed) => result.code = STATE_UNKNOWN

----------------------------------------------------------------------------
(* C5 *)

\* C5: a second check_all on the same RaidChecker and the same command outputs
\* returns the same exit code, message, metrics and finding lists as the first.
C5_SecondRunIdentical ==
    Len(returned) >= 2 =>
        /\ returned[2].code = returned[1].code
        /\ returned[2].msg = returned[1].msg
        /\ returned[2].status = returned[1].status

----------------------------------------------------------------------------
(* C6 *)

\* the verdict the two finding lists give when no drive state decides
FindingsCode ==
    IF status.critical_warnings # <<>> THEN STATE_CRITICAL
    ELSE IF status.warnings # <<>> THEN STATE_WARNING ELSE STATE_OK

VdLabels == {"RAID WARNING (MegaRAID) - VD", "RAID CRITICAL (MegaRAID) - VD"}

\* the parsed drives whose index is the filter
Matching == {i \in 1..Len(ParsedVds) : ParsedVds[i].v = cfg.vd_num}

\* "vall show" lists drive 0/0 Optimal and drive 0/1 Rebuilding
FilterScenario ==
    /\ Len(vd_output) = 2
    /\ vd_output[1] = VdLine(1, Optl, DataName)
    /\ vd_output[2] = VdLine(2, Rbld, DataName)

\* C6: with a filter f, no parsed drive matching f gives CRITICAL "not found"
\* whatever else was found; with a match only the matching drives decide the
\* drive-state rule, so a non-optimal drive that does not match never raises
\* the verdict; 0/0 Optimal, 0/1 Rebuilding: f=1 -> WARNING naming drive 1,
\* f=5 -> CRITICAL not found.
C6_FilterDecides ==
    (Returned /\ cfg.vd_num # "") =>
        /\ Matching = {} =>
             /\ result.code = STATE_CRITICAL
             /\ result.msg.label = "RAID CRITICAL - Virtual Drive not found"
             /\ result.msg.vd = cfg.vd_num
        /\ (Matching # {} /\ \A i \in Matching : ParsedVds[i].st = Optl) =>
             /\ result.code = FindingsCode
             /\ result.msg.label \notin VdLabels
        /\ (\E i \in Matching : ParsedVds[i].st # Optl) =>
             /\ result.code \in {STATE_WARNING, STATE_CRITICAL}
             /\ result.msg.label \in VdLabels
             /\ result.msg.vd = cfg.vd_num
        /\ (FilterScenario /\ cfg.vd_num = "1") =>
             /\ result.code = STATE_WARNING
             /\ result.msg.vd = "1"
             /\ result.msg.readable = Rebuilding
        /\ (FilterScenario /\ cfg.vd_num = "5") =>
             /\ result.code = STATE_CRITICAL
             /\ result.msg.label = "RAID CRITICAL - Virtual Drive not found"

\* drive 0 is asked for and Optimal, drive 1 is Degraded, and the verdict is OK
C6_Witness ==
    /\ Returned
    /\ cfg.vd_num = "0"
    /\ Len(ParsedVds) = 2
    /\ ParsedVds[1].v = "0" /\ ParsedVds[1].st = Optl
    /\ ParsedVds[2].v = "1" /\ ParsedVds[2].st = Dgrd
    /\ result.code = STATE_OK

----------------------------------------------------------------------------
(* C7 *)

\* the section check_ssd_wear reads a drive's remaining life from
WearDetail == Out("eall_sall_show_all")
WearSection(d) == SectionOf(WearDetail, d)
WearExtracted(d) == WearSection(d) # 0 /\ WearDetail[WearSection(d)].wear >= 0
Remaining(d) == WearDetail[WearSection(d)].wear

WearCritical(d) ==
    Finding("SSD wear critical", d, NoTok, Remaining(d)) \in Range(status.critical_warnings)
WearWarning(d) ==
    Finding("SSD wear warning", d, NoTok, Remaining(d)) \in Range(status.warnings)

\* C7 as stated: remaining life equal to the warning threshold -> WARNING; below
\* the critical threshold -> CRITICAL; above the warning threshold -> no
\* finding; at or above the critical threshold and below the warning threshold
\* -> WARNING, not CRITICAL.
C7_WearAsStated ==
    Past("ssd") =>
        \A d \in Range(SsdDrives(pd_output)) : WearExtracted(d) =>
            /\ Remaining(d) = SSD_WEAR_WARN => WearWarning(d)
            /\ Remaining(d) < SSD_WEAR_CRIT => WearCritical(d)
            /\ Remaining(d) > SSD_WEAR_WARN => ~WearWarning(d) /\ ~WearCritical(d)
            /\ (Remaining(d) >= SSD_WEAR_CRIT /\ Remaining(d) < SSD_WEAR_WARN) =>
                   WearWarning(d) /\ ~WearCritical(d)

\* C7 amended: remaining life at or below the critical threshold -> CRITICAL
\* and no WARNING; above the critical threshold and at or below the warning
\* threshold -> WARNING and no CRITICAL; above the warning threshold -> no
\* finding.
C7_WearInclusive ==
    Past("ssd") =>
        \A d \in Range(SsdDrives(pd_output)) : WearExtracted(d) =>
            /\ Remaining(d) <= SSD_WEAR_CRIT => WearCritical(d) /\ ~WearWarning(d)
            /\ (Remaining(d) > SSD_WEAR_CRIT /\ Remaining(d) <= SSD_WEAR_WARN) =>
                   WearWarning(d) /\ ~WearCritical(d)
            /\ Remaining(d) > SSD_WEAR_WARN => ~WearWarning(d) /\ ~WearCritical(d)

\* check_ssd_wear has read exactly the critical threshold for one solid-state
\* drive and exactly the warning threshold for another
C7_Witness ==
    /\ Past("ssd")
    /\ \E d, e \in Range(SsdDrives(pd_output)) :
          /\ WearExtracted(d) /\ Remaining(d) = SSD_WEAR_CRIT /\ WearCritical(d)
          /\ WearExtracted(e) /\ Remaining(e) = SSD_WEAR_WARN /\ WearWarning(e)

----------------------------------------------------------------------------
(* C8 *)

\* a dedicated variant's text is not "unsupported command" and holds a token
Usable(c) == ~Out(c).unsupported /\ Out(c).state # NoTok

\* the first usable variant of a chain, 0 when there is none
FirstUsable(variants) ==
    LET ok == {i \in 1..Len(variants) : Usable(variants[i])} IN
    IF ok = {} THEN 0 ELSE CHOOSE i \in ok : \A j \in ok : i <= j

\* the commands a chain has to run: the variants up to the first usable one,
\* and the controller summary after three unusable ones
Due(variants) ==
    IF FirstUsable(variants) = 0
    THEN variants \o <<"controller_show">>
    ELSE SubSeq(variants, 1, FirstUsable(variants))

\* the token that has to decide a chain
Decider(variants, field) ==
    IF FirstUsable(variants) = 0
    THEN Out("controller_show")[field]
    ELSE Out(variants[FirstUsable(variants)]).state

\* the commands check_battery ran, without the energy-pack query that may end them
BatteryCalls ==
    LET q == SubSeq(calls, 4, Len(calls)) IN
    IF q # <<>> /\ q[Len(q)] = "controller_show_all" THEN SubSeq(q, 1, Len(q) - 1) ELSE q

\* what a chain has left in the report for the token tok
Decided(tag, what, tok) ==
    LET good == [tag |-> tag, val |-> OK] \in Range(status.battery_status)
                /\ \A f \in Range(status.warnings) : f.what # what
        bad == [tag |-> tag, val |-> tok] \in Range(status.battery_status)
               /\ Finding(what, NoTok, tok, 0) \in Range(status.warnings)
    IN IF tok = NoTok
       THEN /\ \A part \in Range(status.battery_status) : part.tag # tag
            /\ \A f \in Range(status.warnings) : f.what # what
       ELSE IF tok = Optimal THEN good ELSE good \/ bad

\* C8: each power-protection chain asks status, basic, all and then the
\* controller summary, in this order, and stops at the first variant that is
\* not "unsupported command" and holds a token; that token decides. With
\* status unsupported, basic without a token and all answering Optimal the
\* check reports OK and records no finding.
C8_FallbackChain ==
    pc = "foreign" =>
        /\ BatteryCalls = Due(CvVariants) \o Due(BbuVariants)
        /\ Decided("CV:", "CacheVault", Decider(CvVariants, "cv"))
        /\ Decided("BBU:", "BBU", Decider(BbuVariants, "bbu"))

\* "status" said unsupported command, "basic" had no token, "all" said Optimal:
\* three commands were asked and the report says CV:OK with no finding
C8_Witness ==
    /\ pc = "foreign"
    /\ Out("cachevault_show_status").unsupported
    /\ ~Usable("cachevault_show_basic")
    /\ Out("cachevault_show_all") = [unsupported |-> FALSE, state |-> Optimal]
    /\ SubSeq(calls, 4, 6) = CvVariants
    /\ status.battery_status = <<[tag |-> "CV:", val |-> OK]>>
    /\ status.warnings = <<>>

----------------------------------------------------------------------------
(* C9 *)

\* every command answers as in the healthy bundle, except that c answers
\* nothing; a drive filter, if set, names a drive of the healthy summary
AbsentOnly(c) ==
    /\ bundle.fail = {}
    /\ bundle.out = [Healthy EXCEPT ![c] = NoText(c)]
    /\ cfg.vd_num # "" => \E i \in 1..Len(Healthy.vall_show) : Healthy.vall_show[i].v = cfg.vd_num

PatrolLines(q) == {i \in 1..Len(q) : q[i].tag = "Patrol Read"}

\* what the evaluators of the other commands leave in the report
OthersEvaluated(c) ==
    /\ status.warnings = <<>>
    /\ status.critical_warnings = <<>>
    /\ c # "show" => status.ctrl_status = [tag |-> "Controller:", val |-> OK]
    /\ status.battery_status = <<[tag |-> "CV:", val |-> OK]>>
    /\ status.hotspare_status = [tag |-> "Spares:", n |-> 0]
    /\ c # "show_patrolread" => status.patrol_status = [tag |-> "PR:Stopped", n |-> 0]
    /\ c # "eall_sall_show_all" => status.max_temp = 35
    /\ c # "vall_show" => status.vd_total = 2
    /\ c # "eall_sall_show" => status.pd_total = 2
    /\ c = "show_patrolread" =>
         /\ status.patrol_status = NoNum
         /\ PatrolLines(status.long_output) = {}
         /\ PatrolLines(result.msg.long) = {}
         /\ cfg.long_output => result.msg.long # <<>>

\* C9 as stated: with one command's text empty and the others healthy, the
\* other evaluators run, nothing is found and the verdict is OK; without the
\* patrol-read text patrol_status stays empty and no detail line names it.
C9_AbsentGivesOk ==
    \A c \in Commands :
        (Returned /\ AbsentOnly(c)) => OthersEvaluated(c) /\ result.code = STATE_OK

\* C9 amended: the same, except that with a drive filter set an empty
\* virtual-drive summary gives CRITICAL "not found".
C9_AbsentIsolated ==
    \A c \in Commands :
        (Returned /\ AbsentOnly(c)) =>
            /\ OthersEvaluated(c)
            /\ IF c = "vall_show" /\ cfg.vd_num # ""
               THEN /\ result.code = STATE_CRITICAL
                    /\ result.msg.label = "RAID CRITICAL - Virtual Drive not found"
               ELSE result.code = STATE_OK

\* the patrol-read text is empty, the detail block is on, the verdict is OK and
\* the block holds the other status lines
C9_Witness ==
    /\ Returned
    /\ AbsentOnly("show_patrolread")
    /\ Healthy.show_patrolread # NoText("show_patrolread")
    /\ cfg.long_output
    /\ result.code = STATE_OK
    /\ \E i \in 1..Len(result.msg.long) : result.msg.long[i].tag = "Controller"

----------------------------------------------------------------------------
(* C10 *)

\* the drive-state rule decides, and the drive it names is itself Rebuilding
\* in a row that carries the columns after the state
RebuildingDecides ==
    /\ ~(cfg.vd_num # "" /\ Considered = {})
    /\ NonOptimal # {}
    /\ ParsedVds[FirstNonOptimal].st = Rbld
    /\ \A i \in 1..Len(vd_output) : vd_output[i].name # NoTok

\* C10: when a non-optimal drive decides the verdict, the message names the
\* first such drive and its translated state, and whenever rebuild_status is
\* set the rebuild progress is part of the message, in terse and in verbose
\* mode (stated here for the runs in which the deciding drive is the
\* Rebuilding one, where the progress is that drive's own).
C10_RebuildAppended ==
    (Returned /\ RebuildingDecides) =>
        /\ result.msg.vd = ParsedVds[FirstNonOptimal].v
        /\ result.msg.readable = translate_status(ParsedVds[FirstNonOptimal].st)
        /\ status.rebuild_status # NoNum => result.msg.rebuild = status.rebuild_status

----------------------------------------------------------------------------
(* C11 *)

\* the section check_smart_data reads for a drive, and a counter of it (a
\* counter the section does not show counts as 0)
SmartDetail == Out("eall_sall_show_all")
SmartDrives == {d \in Range(PdList(pd_output)) : SectionOf(SmartDetail, d) # 0}
SmartSection(d) == SmartDetail[SectionOf(SmartDetail, d)]
Shown(n) == IF n > 0 THEN n ELSE 0

\* how often a finding is in a list
Times(q, f) == Cardinality({i \in 1..Len(q) : q[i] = f})
MediaCriticals(d) ==
    Times(status.critical_warnings, Finding("media errors", d, NoTok, SmartSection(d).media))
MediaWarnings(d) ==
    Times(status.warnings, Finding("media errors", d, NoTok, SmartSection(d).media))

RECURSIVE SumOf(_, _)
SumOf(Count(_), drives) ==
    IF drives = <<>> THEN 0 ELSE Count(Head(drives)) + SumOf(Count, Tail(drives))
MediaOf(d) == IF d \in SmartDrives THEN Shown(SmartSection(d).media) ELSE 0
OtherOf(d) == IF d \in SmartDrives THEN Shown(SmartSection(d).other) ELSE 0
ShieldOf(d) == IF d \in SmartDrives THEN Shown(SmartSection(d).shield) ELSE 0
BbmOf(d) == IF d \in SmartDrives THEN Shown(SmartSection(d).bbm) ELSE 0

\* C11: after check_smart_data, for every drive with a detail section a media
\* count at or above the critical threshold has added one CRITICAL finding and
\* no WARNING, a count from the warning threshold up to the critical one has
\* added one WARNING, a count of 0 nothing; media_errors is the sum of the
\* drives' media counts; other, shield and BBM counts above zero have each
\* added a WARNING and are part of the report's running error totals.
C11_SmartThresholds ==
    Past("smart") =>
        /\ \A d \in SmartDrives :
            LET sec == SmartSection(d) IN
            /\ sec.media >= MEDIA_ERROR_CRIT => MediaCriticals(d) = 1 /\ MediaWarnings(d) = 0
            /\ (sec.media >= MEDIA_ERROR_WARN /\ sec.media < MEDIA_ERROR_CRIT) =>
                   MediaWarnings(d) = 1 /\ MediaCriticals(d) = 0
            /\ sec.media = 0 => MediaWarnings(d) = 0 /\ MediaCriticals(d) = 0
            /\ sec.other > 0 =>
                   Times(status.warnings, Finding("other errors", d, NoTok, sec.other)) = 1
            /\ sec.shield > 0 =>
                   Times(status.warnings, Finding("shield errors", d, NoTok, sec.shield)) = 1
            /\ sec.bbm > 0 =>
                   Times(status.warnings, Finding("BBM errors", d, NoTok, sec.bbm)) = 1
        /\ status.media_errors = SumOf(MediaOf, PdList(pd_output))
        /\ status.other_errors =
               SumOf(OtherOf, PdList(pd_output)) + SumOf(ShieldOf, PdList(pd_output))
               + SumOf(BbmOf, PdList(pd_output))

----------------------------------------------------------------------------
(* C12 *)

\* the tokens the claim names as good
GoodTokens == {Optimal, Good, OK}

\* the findings check_battery can record
BatteryFindings ==
    {i \in 1..Len(status.warnings) :
        status.warnings[i].what \in {"CacheVault", "BBU", "Energy Pack status", "Energy Pack Absent"}}

\* what a subsystem whose chain was decided by tok has left in the report
Classified(tag, what, tok) ==
    IF tok \in GoodTokens
    THEN /\ [tag |-> tag, val |-> OK] \in Range(status.battery_status)
         /\ \A f \in Range(status.warnings) : f.what # what
    ELSE /\ Times(status.warnings, Finding(what, NoTok, tok, 0)) = 1
         /\ Cardinality({i \in 1..Len(status.warnings) : status.warnings[i].what = what}) = 1

NoEnergyPackSignal ==
    Out("controller_show_all").ep = NoTok /\ Out("controller_show_all").ep_status = NoTok

\* C12: after check_battery, a CacheVault or BBU chain decided by Optimal, Good
\* or OK reports OK and has recorded no finding, a chain decided by any other
\* token has recorded exactly one WARNING, the same for both subsystems; with
\* no token from either chain and no energy-pack signal nothing is recorded.
C12_SameClassification ==
    pc = "foreign" =>
        LET cv == Decider(CvVariants, "cv")
            bbu == Decider(BbuVariants, "bbu")
        IN /\ cv # NoTok => Classified("CV:", "CacheVault", cv)
           /\ bbu # NoTok => Classified("BBU:", "BBU", bbu)
           /\ (cv = NoTok /\ bbu = NoTok /\ NoEnergyPackSignal) =>
                  BatteryFindings = {} /\ status.battery_status = <<>>

----------------------------------------------------------------------------
(* C13 *)

\* the rows of the physical-drive summary in a hot-spare state, and in the
\* unconfigured-good state
HotSpareRows == {i \in 1..Len(pd_output) : pd_output[i].state \in {DHS, GHS}}
UnconfiguredGoodRows == {i \in 1..Len(pd_output) : pd_output[i].state = UGood}

NoSpareWarnings == Times(status.warnings, Finding("No hot spares configured", NoTok, NoTok, 0))

\* C13: check_hotspare has recorded the "no hot spares" WARNING exactly when
\* there is no dedicated/global hot spare, no unconfigured-good drive and the
\* physical-drive count exceeds two, that count being the pd_total
\* build_perfdata derives later in the same check_all.
C13_HotspareCount ==
    Past("perfdata") =>
        /\ NoSpareWarnings <= 1
        /\ NoSpareWarnings = 1 <=>
               /\ HotSpareRows = {}
               /\ UnconfiguredGoodRows = {}
               /\ status.pd_total > HOTSPARE_MIN_PD

====
